---- MODULE Spec2Model ----
(***************************************************************************)
(* A model of the PrixFixe SMTP load generator                             *)
(* (stress-test/load-generator/load_generator.py): the metrics object, the *)
(* SMTP transaction of send_smtp_message, the burst workers and the        *)
(* sustained launcher of SMTPLoadGenerator, and main's exit status.        *)
(*                                                                         *)
(* The generator runs on one asyncio event loop.  Coroutines are           *)
(* interleaved only at awaits, so one action is the code a coroutine runs  *)
(* between two awaits at which shared state can differ.  The asyncio.Lock  *)
(* bodies hold no await, so the lock is free whenever another coroutine    *)
(* runs and "async with self.lock" never suspends: a critical section is   *)
(* part of the action that contains it.                                    *)
(***************************************************************************)
EXTENDS Integers, Sequences, FiniteSets, TLC

\* ------------------------------------------------------------------ bounds
MaxStragglers == 1  \* tasks of earlier runs still on the event loop when a run starts
MaxMessages == 2    \* total_messages of a burst run, launches of a sustained run
MaxWorkers == 2     \* concurrent_workers of a burst run
MaxLatency == 1     \* response times are drawn from 1..MaxLatency
MaxPartTotal == 24  \* total_messages in the partitioning specification
MaxPartWorkers == 5 \* concurrent_workers in the partitioning specification
MaxServers == 2     \* len(self.servers), the servers the generator is given
MaxSamples == 4     \* len(response_times) when percentile is called on its own
MaxSample == 4      \* those response times are drawn from 1..MaxSample
MaxEhloLines == 2   \* lines of an EHLO reply before its last, in a session followed alone
MaxCoros == 2       \* workers followed statement by statement for the lock

Latencies == 1..MaxLatency
\* message sizes a run is given: one that needs no padding, one that is padded
MessageSizes == {200, 400}

\* ------------------------------------------------------------- ErrorType
TIMEOUT == "timeout"
CONNECTION_REFUSED == "connection_refused"
CONNECTION_RESET == "connection_reset"
PROTOCOL_ERROR == "protocol_error"
OTHER_ERROR == "other"   \* ErrorType.OTHER (OTHER is a TLA+ keyword)
ErrorType == {TIMEOUT, CONNECTION_REFUSED, CONNECTION_RESET, PROTOCOL_ERROR, OTHER_ERROR}

\* ----------------------------------------------------------- TestMetrics
\* A new TestMetrics(): the dataclass defaults.  end_time = 0 is "unset".
TestMetrics ==
  [ total_messages |-> 0, successful_messages |-> 0, failed_messages |-> 0,
    connection_errors |-> 0, total_bytes_sent |-> 0,
    start_time |-> 0, end_time |-> 0,
    response_times |-> << >>, error_breakdown |-> << >> ]

\* TestMetrics.record_error: error_breakdown[key] = error_breakdown.get(key, 0) + 1
\* (<< >> is the empty dict; a key is in the domain once it has been counted)
record_error(m, error_type) ==
  LET eb == m.error_breakdown
      key == error_type
  IN [m EXCEPT !.error_breakdown =
        [k \in DOMAIN eb \cup {key} |->
           IF k = key THEN (IF key \in DOMAIN eb THEN eb[key] ELSE 0) + 1
           ELSE eb[k]]]

\* ------------------------------------------------- TestMetrics.percentile
\* Response times are whole numbers of a unit (the 0.01 s of the spec's
\* example), p is given in tenths of a percent (999 is 99.9) and the value is
\* returned in thousandths of the unit, so that k, c - k and k - f are whole
\* numbers of thousandths: the arithmetic is exact, where the code's is in
\* binary floating point.
Thousandths == 1000

\* list.insert at the place that keeps an ascending list ascending
Insert(x, s) ==
  LET k == Cardinality({ i \in DOMAIN s : s[i] <= x })
  IN SubSeq(s, 1, k) \o << x >> \o SubSeq(s, k + 1, Len(s))

\* the list handed back as it is
sorted_Unsorted(times) == times

\* sorted(): a new list, ascending
RECURSIVE sorted(_)
sorted(times) ==
  IF times = << >> THEN << >> ELSE Insert(Head(times), sorted(Tail(times)))

\* lines 67-77; self is handed back as the call leaves it (a list of Python is
\* indexed from 0, a sequence from 1)
percentile(self, p) ==
  IF self.response_times = << >> THEN [self |-> self, value |-> 0]
  ELSE LET sorted_times == sorted(self.response_times)
           k == (Len(sorted_times) - 1) * p
           f == k \div Thousandths
           c == IF f + 1 < Len(sorted_times) THEN f + 1 ELSE f
       IN [self |-> self,
           value |-> IF f = c THEN sorted_times[f + 1] * Thousandths
                     ELSE sorted_times[f + 1] * (c * Thousandths - k)
                          + sorted_times[c + 1] * (k - f * Thousandths)]

\* ------------------------------------------------- generate_message_body
\* The body is modelled by its length.  HeaderLen is the length of the fixed
\* seven lines; a padding line "Line {} of test message body content.\r\n"
\* has 37 characters plus the digits of its number.
HeaderLen == 208
Digits(n) == IF n < 10 THEN 1 ELSE IF n < 100 THEN 2 ELSE IF n < 1000 THEN 3 ELSE 4
LineLen(line_num) == 37 + Digits(line_num)

RECURSIVE PadBody(_, _, _)
PadBody(len, line_num, size_bytes) ==
  IF len < size_bytes - 100
  THEN PadBody(len + LineLen(line_num + 1), line_num + 1, size_bytes)
  ELSE len

generate_message_body(size_bytes) == PadBody(HeaderLen, 0, size_bytes)

\* The same length for the sizes whose padding has too many lines to be added
\* one level of recursion per line: the loop of lines 406-410 ends with the
\* least line_num for which the header and the lines 1..line_num reach
\* size_bytes - 100, and that line_num is found by bisection (a line has more
\* than 37 characters, so size_bytes \div 37 lines are enough).
RECURSIVE LinesLen(_, _)
LinesLen(first, last) ==
  IF first > last THEN 0
  ELSE IF first = last THEN LineLen(first)
  ELSE LET mid == (first + last) \div 2
       IN LinesLen(first, mid) + LinesLen(mid + 1, last)

RECURSIVE LeastLineNum(_, _, _)
LeastLineNum(lo, hi, size_bytes) ==
  IF lo = hi THEN lo
  ELSE LET mid == (lo + hi) \div 2
       IN IF HeaderLen + LinesLen(1, mid) < size_bytes - 100
          THEN LeastLineNum(mid + 1, hi, size_bytes)
          ELSE LeastLineNum(lo, mid, size_bytes)

body_length(size_bytes) ==
  HeaderLen + LinesLen(1, LeastLineNum(0, size_bytes \div 37, size_bytes))

\* -------------------------------------------------------- the exceptions
\* An exception is known to the code by its class (an asyncio.TimeoutError or
\* not; oserror tells the socket errors from the others, all are subclasses of
\* Exception) and by the text of str(error).  A text is the set of the phrases
\* it contains, out of those that matter to _classify_error.
Phrases ==
  { "Connection refused", "connection refused", "Connection reset", "Errno 104",
    "500", "501", "503", "550", "Connect call failed" }

\* str.lower(), phrase by phrase
lower(text) ==
  LET low == [ph \in Phrases |->
                CASE ph = "Connection refused" -> "connection refused"
                  [] ph = "Connection reset" -> "connection reset"
                  [] ph = "Errno 104" -> "errno 104"
                  [] ph = "Connect call failed" -> "connect call failed"
                  [] OTHER -> ph]
  IN { low[ph] : ph \in text }

Exceptions ==
  [ TimeoutError           |-> [timeout |-> TRUE,  oserror |-> FALSE, text |-> {}],
    ConnectionRefusedError |-> [timeout |-> FALSE, oserror |-> TRUE,
                                text |-> {"Connection refused"}],
    ConnectCallFailed      |-> [timeout |-> FALSE, oserror |-> TRUE,
                                text |-> {"Connect call failed"}],
    ConnectionResetError   |-> [timeout |-> FALSE, oserror |-> TRUE,
                                text |-> {"Connection reset", "Errno 104"}],
    BrokenPipe550          |-> [timeout |-> FALSE, oserror |-> TRUE,  text |-> {"550"}],
    UnicodeDecodeError     |-> [timeout |-> FALSE, oserror |-> FALSE, text |-> {}] ]

NoExc == "none"
\* the faults of the servers of the scheduler's specification: a timeout, a
\* reset connection, and asyncio's "Connect call failed" for a refused connect
SocketErrors == {"TimeoutError", "ConnectionResetError", "ConnectCallFailed"}

\* the rules in another order: the SMTP codes looked for first
_classify_error_CodesFirst(error) ==
  LET error_str == lower(error.text)
  IN IF error.timeout THEN TIMEOUT
     ELSE IF \E x \in {"500", "501", "503", "550"} : x \in error_str
          THEN PROTOCOL_ERROR
     ELSE IF "connection refused" \in error_str THEN CONNECTION_REFUSED
     ELSE IF "connection reset" \in error_str \/ "errno 104" \in error_str
          THEN CONNECTION_RESET
     ELSE OTHER_ERROR

\* SMTPLoadGenerator._classify_error
_classify_error(error) ==
  LET error_str == lower(error.text)
  IN IF error.timeout THEN TIMEOUT
     ELSE IF "connection refused" \in error_str THEN CONNECTION_REFUSED
     ELSE IF "connection reset" \in error_str \/ "errno 104" \in error_str
          THEN CONNECTION_RESET
     ELSE IF \E x \in {"500", "501", "503", "550"} : x \in error_str
          THEN PROTOCOL_ERROR
     ELSE OTHER_ERROR

\* ------------------------------------------------------ the SMTP server
\* What the peer does during one transaction.  A read event is what one
\* "await asyncio.wait_for(reader.readline(), timeout=5.0)" ends with: a line
\* (its first three bytes, its fourth byte, whether it decodes as UTF-8) or an
\* exception.  A script gives the outcome of open_connection, the read events in
\* order (no event left: nothing arrives within the timeout), the write whose
\* drain() raises (0: none) and the outcome of writer.wait_closed().
Line(code, sep) == [exc |-> NoExc, code |-> code, sep |-> sep, utf8 |-> TRUE]
Binary == [exc |-> NoExc, code |-> "\\xff", sep |-> "", utf8 |-> FALSE]
EndOfFile == Line("", "")
Raises(e) == [exc |-> e, code |-> "", sep |-> "", utf8 |-> TRUE]

ReadLine(reads) == IF reads = << >> THEN Raises("TimeoutError") ELSE Head(reads)
Drain(s, write) == IF s.drain_at = write THEN s.drain_exc ELSE NoExc

\* ------------------------------------------------------ send_smtp_message
\* The value of one transaction: ret is the coroutine's return value, rec is
\* what it records under the lock ("success", an ErrorType, or "none"), raised
\* says that an exception left the coroutine.
Returned(ret, rec) == [ret |-> ret, rec |-> rec, raised |-> FALSE]

\* a narrower clause, "except OSError", in the place of "except Exception"
IsException_OSErrorOnly(e) == Exceptions[e].oserror

\* "except Exception": every exception of the model is a subclass of Exception
IsException(e) == TRUE

\* what the two except clauses record for an exception they catch: line 377,
\* lines 381-384
ErrorRecorded(error) ==
  IF error.timeout THEN TIMEOUT ELSE _classify_error(error)

\* the two except clauses (lines 374-386)
Handler(e) ==
  IF Exceptions[e].timeout \/ IsException(e)
  THEN Returned(FALSE, ErrorRecorded(Exceptions[e]))
  ELSE [ret |-> FALSE, rec |-> "none", raised |-> TRUE]

\* an unexpected reply: print(line.decode()), writer.close(),
\* await writer.wait_closed(), return False; nothing is recorded
Reject(s, line) ==
  IF ~line.utf8 THEN Handler("UnicodeDecodeError")
  ELSE IF s.close # NoExc THEN Handler(s.close)
  ELSE Returned(FALSE, "none")

\* lines 362-372: close, then record the success
Finish(s) ==
  IF s.close # NoExc THEN Handler(s.close) ELSE Returned(TRUE, "success")

\* lines 357-360: QUIT; the reply is read and not looked at
Quit(s, reads) ==
  IF Drain(s, 7) # NoExc THEN Handler(Drain(s, 7))
  ELSE LET line == ReadLine(reads)
       IN IF line.exc # NoExc THEN Handler(line.exc) ELSE Finish(s)

\* lines 339-355: the body, the terminator, the reply to the end of data
Body(s, reads) ==
  IF Drain(s, 5) # NoExc THEN Handler(Drain(s, 5))
  ELSE IF Drain(s, 6) # NoExc THEN Handler(Drain(s, 6))
  ELSE LET line == ReadLine(reads)
       IN IF line.exc # NoExc THEN Handler(line.exc)
          ELSE IF line.code # "250" THEN Reject(s, line)
          ELSE Quit(s, Tail(reads))

\* lines 329-337: DATA
Data(s, reads) ==
  IF Drain(s, 4) # NoExc THEN Handler(Drain(s, 4))
  ELSE LET line == ReadLine(reads)
       IN IF line.exc # NoExc THEN Handler(line.exc)
          ELSE IF line.code # "354" THEN Reject(s, line)
          ELSE Body(s, Tail(reads))

\* lines 319-327: RCPT TO
RcptTo(s, reads) ==
  IF Drain(s, 3) # NoExc THEN Handler(Drain(s, 3))
  ELSE LET line == ReadLine(reads)
       IN IF line.exc # NoExc THEN Handler(line.exc)
          ELSE IF line.code # "250" THEN Reject(s, line)
          ELSE Data(s, Tail(reads))

\* lines 309-317: MAIL FROM
MailFrom(s, reads) ==
  IF Drain(s, 2) # NoExc THEN Handler(Drain(s, 2))
  ELSE LET line == ReadLine(reads)
       IN IF line.exc # NoExc THEN Handler(line.exc)
          ELSE IF line.code # "250" THEN Reject(s, line)
          ELSE RcptTo(s, Tail(reads))

\* the loop ended by the first line that begins "250-"
RECURSIVE EhloLines_BreakOnHyphen(_, _)
EhloLines_BreakOnHyphen(s, reads) ==
  LET line == ReadLine(reads)
  IN IF line.exc # NoExc THEN Handler(line.exc)
     ELSE IF line.code # "250" THEN Reject(s, line)
     ELSE IF line.sep = "-" THEN MailFrom(s, Tail(reads))
     ELSE EhloLines_BreakOnHyphen(s, Tail(reads))

\* lines 298-307: the EHLO reply lines, up to the one that begins "250 "
RECURSIVE EhloLines(_, _)
EhloLines(s, reads) ==
  LET line == ReadLine(reads)
  IN IF line.exc # NoExc THEN Handler(line.exc)
     ELSE IF line.code # "250" THEN Reject(s, line)
     ELSE IF line.sep = " " THEN MailFrom(s, Tail(reads))
     ELSE EhloLines(s, Tail(reads))

\* lines 294-296: EHLO
Ehlo(s, reads) ==
  IF Drain(s, 1) # NoExc THEN Handler(Drain(s, 1)) ELSE EhloLines(s, reads)

\* lines 286-292: the greeting
Greeting(s, reads) ==
  LET line == ReadLine(reads)
  IN IF line.exc # NoExc THEN Handler(line.exc)
     ELSE IF line.code # "220" THEN Reject(s, line)
     ELSE Ehlo(s, Tail(reads))

\* lines 279-386, up to what is recorded
send_smtp_message(s) ==
  IF s.connect # NoExc THEN Handler(s.connect) ELSE Greeting(s, s.reads)

\* the success recorded without its bytes
RecordSuccess_NoBytes(m, response_time, body_len) ==
  [m EXCEPT !.successful_messages = @ + 1,
            !.response_times = Append(@, response_time)]

\* lines 365-370, under the lock
RecordSuccess(m, response_time, body_len) ==
  [m EXCEPT !.successful_messages = @ + 1,
            !.total_bytes_sent = @ + body_len,
            !.response_times = Append(@, response_time)]

\* the error counted without its category
RecordError_CountOnly(m, error_type) ==
  [m EXCEPT !.connection_errors = @ + 1]

\* lines 375-377 and 382-384, under the lock
RecordError(m, error_type) ==
  record_error([m EXCEPT !.connection_errors = @ + 1], error_type)

\* what a transaction that ended with result res leaves in the metrics object
Record(m, res, response_time, message_size) ==
  IF res.rec = "success"
  THEN RecordSuccess(m, response_time, generate_message_body(message_size))
  ELSE IF res.rec \in ErrorType THEN RecordError(m, res.rec)
  ELSE m

\* ---------------------------------------------------- server behaviours
Good == << Line("220", " "), Line("250", "-"), Line("250", " "), Line("250", " "),
           Line("250", " "), Line("354", " "), Line("250", " "), Line("221", " ") >>
\* the same with a one-line EHLO reply
GoodShort == << Line("220", " "), Line("250", " "), Line("250", " "),
                Line("250", " "), Line("354", " "), Line("250", " "), Line("221", " ") >>
Events ==
  { Line("220", " "), Line("250", "-"), Line("250", " "), Line("354", " "),
    Line("550", " "), Line("221", " "), EndOfFile, Binary }
  \cup { Raises(e) : e \in SocketErrors }

Cooperative(reads) ==
  [connect |-> NoExc, reads |-> reads, drain_at |-> 0, drain_exc |-> NoExc, close |-> NoExc]

ReadSeqs ==
  {Good, GoodShort}
  \cup { SubSeq(g, 1, k) \o <<e>> : g \in {Good, GoodShort}, k \in 0..7, e \in Events }

\* "550 rejected" in answer to RCPT TO, everything before it as expected
RcptRejected == { SubSeq(Good, 1, 4) \o << Line("550", " ") >>,
                  SubSeq(GoodShort, 1, 3) \o << Line("550", " ") >> }

Scripts ==
  { Cooperative(r) : r \in ReadSeqs }
  \cup { [Cooperative(<< >>) EXCEPT !.connect = e] : e \in SocketErrors }
  \cup { [Cooperative(Good) EXCEPT !.drain_at = k, !.drain_exc = e] :
           k \in 1..7, e \in {"ConnectionResetError"} }
  \cup { [Cooperative(r) EXCEPT !.close = "ConnectionResetError"] :
           r \in {Good} \cup RcptRejected }

\* the behaviours two of the end-to-end scenarios are about: every step answered
\* with the expected code (and QUIT with any line), and RCPT TO answered 550
Behaviour(s) ==
  IF s \in { Cooperative(SubSeq(g, 1, Len(g) - 1) \o <<e>>) :
               g \in {Good, GoodShort}, e \in {x \in Events : x.exc = NoExc} }
  THEN "expected"
  ELSE IF s \in { Cooperative(r) : r \in RcptRejected } THEN "rcpt550"
  ELSE "other"

\* every way a transaction can end, with the behaviour that led to it
Outcomes ==
  { [res |-> send_smtp_message(s), behaviour |-> Behaviour(s)] : s \in Scripts }

\* ------------------------------------------------------------- the state
VARIABLES
  metrics,     \* self.metrics: the TestMetrics object of the generator
  run,         \* the run in progress or last returned: its arguments and
               \*   where run_burst_test / run_sustained_test stands (pc)
  workers,     \* the run_worker tasks of the burst run: pc, i, num_messages
  tasks,       \* send_smtp_message tasks the sustained run in progress (or last
               \*   returned) created and that have not ended
  stragglers,  \* such tasks of earlier runs, by message size
  exit_code,   \* main's exit status for the run, once it has returned: << >>
               \*   before, << status >> after
  ended,       \* history: sessions of this run that returned True / False
  seen,        \* history: the one server behaviour every ended session of this
               \*   run met ("nothing" before the first, "mixed" otherwise)
  recorded,    \* history: message sizes of the successes recorded in metrics
  servers,     \* len(self.servers)
  targets,     \* history: the indexes in self.servers of the servers the run's
               \*   transactions were started against
  call,        \* a method called on its own: its name, argument and value
  session,     \* one send_smtp_message coroutine followed await by await
  lock,        \* self.lock followed statement by statement: its holder
  coros,       \* the coroutines that take self.lock, statement by statement
  collector    \* a DockerStatsCollector, its thread and the caller of its
               \*   start() and stop(), second by second

vars == << metrics, run, workers, tasks, stragglers, exit_code,
           ended, seen, recorded, servers, targets, call, session, lock, coros,
           collector >>

\* the variables of the specifications that follow one method, one transaction
\* or the lock; the scheduler's specifications leave them alone
others == << call, session, lock, coros, collector >>
NoCall == [fn |-> "none"]
NoSession == [pc |-> "none"]
NoCoros == << >>
NoCollector == [caller |-> "none"]
Free == 0   \* no coroutine holds the lock (coroutines are numbered from 1)
Idle ==
  /\ call = NoCall /\ session = NoSession /\ lock = Free /\ coros = NoCoros
  /\ collector = NoCollector

NoStragglers == [size \in MessageSizes |-> 0]
NoneRecorded == [size \in MessageSizes |-> 0]

\* SMTPLoadGenerator.__init__: a first TestMetrics; no run has been started
Init ==
  /\ metrics = TestMetrics
  /\ run = [pc |-> "idle", mode |-> "none", total_messages |-> 0,
      concurrent_workers |-> 0, message_size |-> 0, message_count |-> 0]
  /\ workers = << >>
  /\ tasks = 0
  /\ stragglers = NoStragglers
  /\ exit_code = << >>
  /\ ended = [ok |-> 0, failed |-> 0]
  /\ seen = "nothing"
  /\ recorded = NoneRecorded
  /\ servers \in 1..MaxServers
  /\ targets = {}
  /\ Idle

See(before, behaviour) ==
  IF before \in {"nothing", behaviour} /\ behaviour # "other" THEN behaviour
  ELSE "mixed"

\* the remainder handed to one worker too many
worker_messages_OffByOne(total_messages, concurrent_workers, i) ==
  LET messages_per_worker == total_messages \div concurrent_workers
      remainder == total_messages % concurrent_workers
  IN messages_per_worker + (IF i <= remainder THEN 1 ELSE 0)

\* run_burst_test, line 456: the batch of worker i (0-based)
worker_messages(total_messages, concurrent_workers, i) ==
  LET messages_per_worker == total_messages \div concurrent_workers
      remainder == total_messages % concurrent_workers
  IN messages_per_worker + (IF i < remainder THEN 1 ELSE 0)

\* lines 418 and 497: self.servers[i % len(self.servers)], as an index
server(i) == i % servers

\* main, line 626: sys.exit(0 if metrics.failed_messages == 0 else 1)
ExitStatus(m) == IF m.failed_messages = 0 THEN 0 ELSE 1

\* time.time() is not modelled beyond start_time < end_time: a run starts at
\* StartTime and is finalized at EndTime
StartTime == 1
EndTime == 2

\* lines 442-443 and 480-481: self.metrics = TestMetrics(); start_time = time.time()
NewMetrics == [TestMetrics EXCEPT !.start_time = StartTime]

Sum(bag) == LET RECURSIVE S(_)
                S(D) == IF D = {} THEN 0
                        ELSE LET x == CHOOSE y \in D : TRUE IN bag[x] + S(D \ {x})
            IN S(DOMAIN bag)

\* the tasks a run left behind stay on the event loop when the next run starts
\* (any number of runs may follow one another; MaxStragglers caps what they
\* leave behind)
StartRun(mode, total_messages, concurrent_workers, message_size) ==
  /\ run.pc = "idle"
  /\ tasks + Sum(stragglers) <= MaxStragglers
  /\ metrics' = NewMetrics
  /\ run' = [pc |-> mode, mode |-> mode,
             total_messages |-> total_messages,
             concurrent_workers |-> concurrent_workers,
             message_size |-> message_size, message_count |-> 0]
  /\ tasks' = 0
  /\ stragglers' = IF tasks = 0 THEN stragglers
                   ELSE [stragglers EXCEPT ![run.message_size] = @ + tasks]
  /\ ended' = [ok |-> 0, failed |-> 0]
  /\ seen' = "nothing"
  /\ recorded' = NoneRecorded
  /\ exit_code' = << >>
  /\ targets' = {}
  /\ UNCHANGED << servers, others >>

\* run_burst_test, lines 442-460: up to "await asyncio.gather(*tasks)"
run_burst_test(total_messages, concurrent_workers, message_size) ==
  /\ StartRun("burst", total_messages, concurrent_workers, message_size)
  /\ workers' = [w \in 1..concurrent_workers |->
                   [pc |-> "ready", i |-> 0,
                    num_messages |->
                      worker_messages(total_messages, concurrent_workers, w - 1)]]

\* the transaction started as a task of its own, the worker going on to its
\* next message without awaiting it
WorkerSend_NotAwaited(w) ==
  /\ w \in DOMAIN workers
  /\ workers[w].pc = "ready"
  /\ workers[w].i < workers[w].num_messages
  /\ metrics' = [metrics EXCEPT !.total_messages = @ + 1]
  /\ workers' = [workers EXCEPT ![w].i = @ + 1]
  /\ tasks' = tasks + 1
  /\ targets' = targets \cup {server(workers[w].i)}
  /\ UNCHANGED << run, stragglers, exit_code, ended, seen, recorded, servers, others >>

\* run_worker, lines 416-423: the next message of the batch is counted and its
\* transaction started
WorkerSend(w) ==
  /\ w \in DOMAIN workers
  /\ workers[w].pc = "ready"
  /\ workers[w].i < workers[w].num_messages
  /\ metrics' = [metrics EXCEPT !.total_messages = @ + 1]
  /\ workers' = [workers EXCEPT ![w].pc = "inflight"]
  /\ targets' = targets \cup {server(workers[w].i)}
  /\ UNCHANGED << run, tasks, stragglers, exit_code, ended, seen,
                  recorded, servers, others >>

\* run_worker, lines 423-430: the transaction ends; it has recorded its success
\* or its error, the worker counts a failure, then sleeps before the next
\* message.  An exception that left send_smtp_message ends the worker task, and
\* gather() passes it on to run_burst_test and to main (exit status 1).
WorkerDone(w) ==
  /\ w \in DOMAIN workers
  /\ workers[w].pc = "inflight"
  /\ \E o \in Outcomes, response_time \in Latencies :
       LET res == o.res
           m1 == Record(metrics, res, response_time, run.message_size)
       IN /\ seen' = See(seen, o.behaviour)
          /\ IF res.raised
             THEN /\ metrics' = m1
                  /\ workers' = [workers EXCEPT ![w].pc = "raised"]
                  /\ run' = [run EXCEPT !.pc = "aborted"]
                  /\ exit_code' = << 1 >>
                  /\ UNCHANGED << ended, recorded >>
             ELSE /\ metrics' = IF res.ret THEN m1
                                ELSE [m1 EXCEPT !.failed_messages = @ + 1]
                  /\ workers' = [workers EXCEPT ![w].pc = "ready", ![w].i = @ + 1]
                  /\ ended' = IF res.ret THEN [ended EXCEPT !.ok = @ + 1]
                              ELSE [ended EXCEPT !.failed = @ + 1]
                  /\ recorded' = IF res.rec = "success"
                                 THEN [recorded EXCEPT ![run.message_size] = @ + 1]
                                 ELSE recorded
                  /\ UNCHANGED << run, exit_code >>
  /\ UNCHANGED << tasks, stragglers, servers, targets, others >>

\* run_worker: range(num_messages) is exhausted and the task ends
WorkerReturn(w) ==
  /\ w \in DOMAIN workers
  /\ workers[w].pc = "ready"
  /\ workers[w].i = workers[w].num_messages
  /\ workers' = [workers EXCEPT ![w].pc = "done"]
  /\ UNCHANGED << metrics, run, tasks, stragglers, exit_code, ended,
                  seen, recorded, servers, targets, others >>

\* lines 462-468 and 508-514, then main: end_time is set, the metrics are
\* returned and main exits with the status they give
Finalize ==
  /\ metrics' = [metrics EXCEPT !.end_time = EndTime]
  /\ run' = [run EXCEPT !.pc = "idle"]
  /\ exit_code' = << ExitStatus(metrics) >>
  /\ UNCHANGED << servers, targets, others >>

\* the run going on as soon as one worker has ended
BurstReturn_FirstCompleted ==
  /\ run.pc = "burst"
  /\ \E w \in DOMAIN workers : workers[w].pc = "done"
  /\ Finalize
  /\ UNCHANGED << workers, tasks, stragglers, ended, seen, recorded >>

\* run_burst_test, lines 460-468: gather() has every worker's result
BurstReturn ==
  /\ run.pc = "burst"
  /\ \A w \in DOMAIN workers : workers[w].pc = "done"
  /\ Finalize
  /\ UNCHANGED << workers, tasks, stragglers, ended, seen, recorded >>

\* run_sustained_test, lines 480-492: up to the first test of the loop
run_sustained_test(message_size) ==
  /\ StartRun("sustained", 0, 0, message_size)
  /\ workers' = << >>

\* run_sustained_test, lines 493-503: time.time() < end_time; one more message
\* is counted, its transaction is created as a task and not awaited
SustainedLaunch ==
  /\ run.pc = "sustained"
  /\ run.message_count < MaxMessages
  /\ metrics' = [metrics EXCEPT !.total_messages = @ + 1]
  /\ tasks' = tasks + 1
  /\ run' = [run EXCEPT !.message_count = @ + 1]
  /\ targets' = targets \cup {server(run.message_count)}
  /\ UNCHANGED << workers, stragglers, exit_code, ended, seen,
                  recorded, servers, others >>

\* run_sustained_test, lines 493 and 506: the duration has elapsed; the loop
\* ends and the run sleeps its 5 seconds
SustainedElapsed ==
  /\ run.pc = "sustained"
  /\ run' = [run EXCEPT !.pc = "grace"]
  /\ UNCHANGED << metrics, workers, tasks, stragglers, exit_code,
                  ended, seen, recorded, servers, targets, others >>

\* the run waiting, after its 5 seconds, for every task it created
SustainedReturn_AwaitsTasks ==
  /\ run.pc = "grace"
  /\ tasks = 0
  /\ Finalize
  /\ UNCHANGED << workers, tasks, stragglers, ended, seen, recorded >>

\* run_sustained_test, lines 506-514: the 5 seconds are over, whatever is still
\* in flight
SustainedReturn ==
  /\ run.pc = "grace"
  /\ Finalize
  /\ UNCHANGED << workers, tasks, stragglers, ended, seen, recorded >>

\* a task of the sustained run in progress (or last returned) ends: lines
\* 365-386; its return value goes nowhere, and so does an exception
TaskDone ==
  /\ tasks > 0
  /\ \E o \in Outcomes, response_time \in Latencies :
       LET res == o.res
       IN /\ metrics' = Record(metrics, res, response_time, run.message_size)
          /\ seen' = See(seen, o.behaviour)
          /\ ended' = IF res.ret THEN [ended EXCEPT !.ok = @ + 1]
                      ELSE [ended EXCEPT !.failed = @ + 1]
          /\ recorded' = IF res.rec = "success"
                         THEN [recorded EXCEPT ![run.message_size] = @ + 1]
                         ELSE recorded
  /\ tasks' = tasks - 1
  /\ UNCHANGED << run, workers, stragglers, exit_code, servers, targets, others >>

\* a task an earlier run left behind ends: the same lines, and self.metrics is
\* by now the object of a later run
StragglerDone(message_size) ==
  /\ stragglers[message_size] > 0
  /\ \E o \in Outcomes, response_time \in Latencies :
       LET res == o.res
           m1 == Record(metrics, res, response_time, message_size)
       IN /\ metrics' = m1
          /\ recorded' = IF res.rec = "success"
                         THEN [recorded EXCEPT ![message_size] = @ + 1]
                         ELSE recorded
  /\ stragglers' = [stragglers EXCEPT ![message_size] = @ - 1]
  /\ UNCHANGED << run, workers, tasks, exit_code, ended, seen,
                  servers, targets, others >>

Next ==
  \/ \E total_messages \in 0..MaxMessages, concurrent_workers \in 1..MaxWorkers,
        message_size \in MessageSizes :
       run_burst_test(total_messages, concurrent_workers, message_size)
  \/ \E w \in 1..(MaxWorkers + 1) : WorkerSend(w)
  \/ \E w \in 1..(MaxWorkers + 1) : WorkerDone(w)
  \/ \E w \in 1..(MaxWorkers + 1) : WorkerReturn(w)
  \/ BurstReturn
  \/ \E message_size \in MessageSizes : run_sustained_test(message_size)
  \/ SustainedLaunch
  \/ SustainedElapsed
  \/ SustainedReturn
  \/ TaskDone
  \/ \E message_size \in MessageSizes : StragglerDone(message_size)

\* a generator given one server: the target does not enter what a session
\* records, and the runs that follow one another are told apart without it
OneServer == Init /\ servers = 1

Spec == OneServer /\ [][Next]_vars

\* ------------------------------------------------ the program: main
\* main starts one run on a new generator and a new event loop, and leaves
\* through sys.exit when the run has returned: asyncio.run() cancels the
\* tasks still on the loop, which end at their await without recording
\* (CancelledError is no subclass of Exception since Python 3.8).
FirstRun == run.mode = "none"

MainNext ==
  \/ \E total_messages \in 0..MaxMessages, concurrent_workers \in 1..MaxWorkers,
        message_size \in MessageSizes :
       FirstRun /\ run_burst_test(total_messages, concurrent_workers, message_size)
  \/ \E w \in 1..(MaxWorkers + 1) : WorkerSend(w)
  \/ \E w \in 1..(MaxWorkers + 1) : WorkerDone(w)
  \/ \E w \in 1..(MaxWorkers + 1) : WorkerReturn(w)
  \/ BurstReturn
  \/ \E message_size \in MessageSizes : FirstRun /\ run_sustained_test(message_size)
  \/ SustainedLaunch
  \/ SustainedElapsed
  \/ SustainedReturn
  \/ run.pc # "idle" /\ TaskDone

SpecMain == Init /\ [][MainNext]_vars

\* What the event loop and the clock guarantee to run_sustained_test: time.time()
\* reaches end_time (line 493: every iteration sleeps at line 503 and the clock
\* goes on), and asyncio.sleep(5) (line 506) ends.  Nothing is guaranteed to the
\* transactions: a task may stay at an await for ever (a drain() the peer never
\* lets end), so TaskDone has no fairness.
SpecMainLive == SpecMain /\ WF_vars(SustainedElapsed) /\ WF_vars(SustainedReturn)

\* ------------------------------------- the partitioning of a burst run
\* run_burst_test, lines 451-458, one worker at a time, for the totals and
\* worker counts up to MaxPartTotal and MaxPartWorkers
PartitionInit ==
  /\ metrics = NewMetrics
  /\ run \in { [pc |-> "burst", mode |-> "burst", total_messages |-> total_messages,
                concurrent_workers |-> concurrent_workers, message_size |-> 200,
                message_count |-> 0] :
               total_messages \in 0..MaxPartTotal,
               concurrent_workers \in 1..MaxPartWorkers }
  /\ workers = << >>
  /\ tasks = 0
  /\ stragglers = NoStragglers
  /\ exit_code = << >>
  /\ ended = [ok |-> 0, failed |-> 0]
  /\ seen = "nothing"
  /\ recorded = NoneRecorded
  /\ servers = 1
  /\ targets = {}
  /\ Idle

CreateWorker ==
  /\ Len(workers) < run.concurrent_workers
  /\ workers' = Append(workers,
       [pc |-> "ready", i |-> 0,
        num_messages |->
          worker_messages(run.total_messages, run.concurrent_workers, Len(workers))])
  /\ UNCHANGED << metrics, run, tasks, stragglers, exit_code, ended, seen, recorded,
                  servers, targets, others >>

SpecPartition == PartitionInit /\ [][CreateWorker]_vars

\* ------------------------------------------------ _classify_error alone
\* The exceptions _classify_error can be given: a timeout or not, with any of
\* the phrases in its text.
Errors == [timeout : BOOLEAN, text : SUBSET Phrases]

\* the variables of the scheduler
sched == << metrics, run, workers, tasks, stragglers, exit_code, ended, seen,
            recorded, servers, targets >>

\* no run has been started
NoRun ==
  /\ run = [pc |-> "idle", mode |-> "none", total_messages |-> 0,
      concurrent_workers |-> 0, message_size |-> 0, message_count |-> 0]
  /\ workers = << >>
  /\ tasks = 0
  /\ stragglers = NoStragglers
  /\ exit_code = << >>
  /\ ended = [ok |-> 0, failed |-> 0]
  /\ seen = "nothing"
  /\ recorded = NoneRecorded
  /\ servers = 1
  /\ targets = {}

SchedInit == metrics = TestMetrics /\ NoRun

ClassifyInit ==
  /\ SchedInit
  /\ call \in { [fn |-> "_classify_error", arg |-> error, pc |-> "called"] :
                   error \in Errors }
  /\ session = NoSession /\ lock = Free /\ coros = NoCoros
  /\ collector = NoCollector

\* lines 260-270, and what lines 374-384 record for the same exception
Classify ==
  /\ call.fn = "_classify_error" /\ call.pc = "called"
  /\ call' = [fn |-> call.fn, arg |-> call.arg, pc |-> "returned",
               value |-> _classify_error(call.arg),
               recorded |-> ErrorRecorded(call.arg)]
  /\ UNCHANGED << sched, session, lock, coros, collector >>

SpecClassify == ClassifyInit /\ [][Classify]_vars

\* ----------------------------------------------------- percentile alone
\* the percentiles the report asks for (lines 79-97), the two ends and a quarter
Percentiles == {0, 250, 500, 900, 950, 990, 999, 1000}

RECURSIVE Lists(_)
Lists(n) ==
  IF n = 0 THEN { << >> }
  ELSE LET shorter == Lists(n - 1)
       IN shorter \cup { Append(s, x) : s \in { l \in shorter : Len(l) = n - 1 },
                                          x \in 1..MaxSample }

\* a metrics object that has recorded the successes whose response times it holds
PercentileInit ==
  /\ NoRun
  /\ session = NoSession /\ lock = Free /\ coros = NoCoros
  /\ collector = NoCollector
  /\ \E times \in Lists(MaxSamples), p \in Percentiles :
       /\ metrics = [TestMetrics EXCEPT !.response_times = times,
                                        !.successful_messages = Len(times),
                                        !.total_messages = Len(times)]
       /\ call = [fn |-> "percentile", arg |-> p, pc |-> "called", before |-> times]

Percentile ==
  /\ call.fn = "percentile" /\ call.pc = "called"
  /\ metrics.response_times = call.before
  /\ LET r == percentile(metrics, call.arg)
     IN /\ metrics' = r.self
        /\ call' = [call EXCEPT !.pc = "returned"] @@ [value |-> r.value]
  /\ UNCHANGED << run, workers, tasks, stragglers, exit_code, ended, seen,
                  recorded, servers, targets, session, lock, coros, collector >>

SpecPercentile == PercentileInit /\ [][Percentile]_vars

\* ------------------------------------- one transaction, await by await
\* send_smtp_message followed from one await to the next, the peer free to
\* answer each read with any event, to fail any write, to stop reading at any
\* moment (for good: it never reads again and never closes) and to fail the
\* close.  session.pc is the await the coroutine stands at; sent and reads are
\* what it has written and what its reads ended with, in order.
\*
\* The writes of lines 295-358 in order, and their lengths in bytes
Writes == << "EHLO", "MAIL FROM", "RCPT TO", "DATA", "body", ".", "QUIT" >>
WriteBytes(write, message_body) ==
  CASE write = "EHLO" -> 19
    [] write = "MAIL FROM" -> 32
    [] write = "RCPT TO" -> 28
    [] write = "DATA" -> 6
    [] write = "body" -> message_body
    [] write = "." -> 3
    [] write = "QUIT" -> 6

\* every reply held to "250", the greeting and the reply to DATA too
Expected_Always250(step) == "250"

\* the prefix a reply must have: lines 288, 301, 313, 323, 333, 351
Expected(step) == IF step = "greeting" THEN "220" ELSE IF step = "DATA" THEN "354" ELSE "250"
\* what is written once the reply to a step has been accepted
NextWrite(step) ==
  CASE step = "greeting" -> "EHLO"
    [] step = "EHLO" -> "MAIL FROM"
    [] step = "MAIL FROM" -> "RCPT TO"
    [] step = "RCPT TO" -> "DATA"
    [] step = "DATA" -> "body"
    [] step = "." -> "QUIT"

\* The transport's write buffer.  What the coroutine writes once the peer has
\* stopped reading first fills the socket buffers of the two hosts (room bytes)
\* and then the transport's buffer: drain() returns at once unless that buffer
\* is above its high-water mark (asyncio's default, 64 KiB, which the code
\* leaves alone), and a closed transport is not closed for wait_closed() before
\* its buffer has been flushed.
HighWater == 65536
Rooms == {8192, 262144}
\* --size small and --size large of main's size_map
SessionSizes == {1024, 102400}

Buffered(s) == IF s.unread > s.room THEN s.unread - s.room ELSE 0
DrainBlocks(s) == s.peer = "stalled" /\ Buffered(s) > HighWater
WaitClosedBlocks(s) == s.peer = "stalled" /\ Buffered(s) > 0

\* writer.write(...) followed by "await writer.drain()"
Write(s, write) ==
  [s EXCEPT !.sent = Append(@, write), !.step = write, !.pc = "drain",
            !.unread = IF s.peer = "stalled"
                       THEN @ + WriteBytes(write, s.message_body) ELSE 0]

\* writer.close() followed by "await writer.wait_closed()"
Close(s, after) == [s EXCEPT !.conn = "closed", !.pc = "wait_closed", !.after = after]

\* An exception reaches the except clauses (lines 374-386), which record it and
\* return False; they do not close the writer.  The transport of a connection
\* the peer reset has been closed by the event loop; otherwise the connection
\* stays open, unless the interpreter's finalizer of the writer closes it when
\* the coroutine's frame is freed (finalizer: the interpreter has one and has
\* run it).
Except(s, e, finalizer) ==
  LET res == Handler(e)
  IN [s EXCEPT !.pc = IF res.raised THEN "raised" ELSE "returned",
               !.ret = res.ret, !.rec = res.rec, !.exc = e,
               !.conn = IF s.conn = "open" /\ (e = "ConnectionResetError" \/ finalizer)
                        THEN "closed" ELSE s.conn]

\* the metrics after the session has recorded what session s says (s.rec):
\* lines 365-370, 375-377, 382-384
SessionRecord(s, response_time) ==
  IF s.rec = "success" THEN RecordSuccess(metrics, response_time, s.message_body)
  ELSE IF s.rec \in ErrorType THEN RecordError(metrics, s.rec)
  ELSE metrics

SessionVars == << run, workers, tasks, stragglers, exit_code, ended, seen, recorded,
                  servers, targets, call, lock, coros, collector >>

\* run_worker has counted the message (line 421) and calls send_smtp_message:
\* lines 277-284, up to the await of the connection.  message_body is the
\* length of the body line 340 generates, which message_size alone decides.
SessionInit ==
  /\ \E message_size \in SessionSizes, room \in Rooms :
       /\ run = [pc |-> "burst", mode |-> "burst", total_messages |-> 1,
                 concurrent_workers |-> 1, message_size |-> message_size,
                 message_count |-> 0]
       /\ session = [pc |-> "connect", step |-> "connect", conn |-> "none",
                     sent |-> << >>, reads |-> << >>, peer |-> "reading",
                     room |-> room, unread |-> 0, message_size |-> message_size,
                     message_body |-> body_length(message_size),
                     after |-> "none", ret |-> FALSE, rec |-> "none", exc |-> NoExc,
                     drain_at |-> 0, close |-> NoExc]
  /\ metrics = [NewMetrics EXCEPT !.total_messages = 1]
  /\ workers = << [pc |-> "inflight", i |-> 0, num_messages |-> 1] >>
  /\ tasks = 0
  /\ stragglers = NoStragglers
  /\ exit_code = << >>
  /\ ended = [ok |-> 0, failed |-> 0]
  /\ seen = "nothing"
  /\ recorded = NoneRecorded
  /\ servers = 1
  /\ targets = {0}
  /\ call = NoCall /\ lock = Free /\ coros = NoCoros
  /\ collector = NoCollector

\* lines 281-284: the connection is made, or open_connection raises, or the 10
\* seconds pass; then the read of the greeting is awaited
Connect ==
  /\ session.pc = "connect"
  /\ \/ /\ session' = [session EXCEPT !.pc = "read", !.step = "greeting", !.conn = "open"]
        /\ UNCHANGED metrics
     \/ \E e \in {"TimeoutError", "ConnectionRefusedError", "ConnectCallFailed"},
           response_time \in Latencies :
          LET s == Except(session, e, FALSE)
          IN /\ session' = s
             /\ metrics' = SessionRecord(s, response_time)
  /\ UNCHANGED SessionVars

\* the peer stops reading, for good
PeerStalls ==
  /\ session.conn = "open" /\ session.pc \in {"read", "drain"}
  /\ session.peer = "reading"
  /\ session' = [session EXCEPT !.peer = "stalled", !.unread = 0]
  /\ UNCHANGED << metrics, SessionVars >>

\* an awaited readline ends: with an exception (the timeout of wait_for
\* included), with a line that is accepted (the next command is written and its
\* drain awaited; after QUIT the writer is closed), with one more line of the
\* EHLO reply, or with a line that is not accepted (lines 289-292 and the like:
\* the line is decoded for the print, the writer is closed)
Read ==
  /\ session.pc = "read"
  /\ \E line \in Events, finalizer \in BOOLEAN, response_time \in Latencies :
       LET s0 == [session EXCEPT !.reads = Append(@, line)]
           s == IF line.exc # NoExc THEN Except(s0, line.exc, finalizer)
                ELSE IF session.step = "QUIT" THEN Close(s0, "finish")
                ELSE IF line.code # Expected(session.step)
                     THEN IF line.utf8 THEN Close(s0, "reject")
                          ELSE Except(s0, "UnicodeDecodeError", finalizer)
                ELSE IF session.step = "EHLO" /\ line.sep # " " THEN s0
                ELSE Write(s0, NextWrite(session.step))
       IN /\ (session.step = "EHLO" /\ s = s0) =>
               Cardinality({ i \in DOMAIN session.reads :
                               session.reads[i].sep = "-" }) < MaxEhloLines
          /\ session' = s
          /\ metrics' = IF s.pc \in {"returned", "raised"}
                        THEN SessionRecord(s, response_time) ELSE metrics
  /\ UNCHANGED SessionVars

\* an awaited drain ends: it returns (then the terminator follows the body, a
\* read follows every other write) or raises; it does not end while the
\* transport's buffer is above the high-water mark
DrainEnds ==
  /\ session.pc = "drain"
  /\ ~DrainBlocks(session)
  /\ \/ /\ session' = IF session.step = "body" THEN Write(session, ".")
                       ELSE [session EXCEPT !.pc = "read"]
        /\ UNCHANGED metrics
     \/ \E finalizer \in BOOLEAN, response_time \in Latencies :
          LET at == Len(session.sent)
              s == Except([session EXCEPT !.drain_at = at],
                          "ConnectionResetError", finalizer)
          IN /\ session' = s
             /\ metrics' = SessionRecord(s, response_time)
  /\ UNCHANGED SessionVars

\* an awaited wait_closed ends: it returns (after an unaccepted line False is
\* returned, lines 292 and the like; after QUIT the success is recorded and True
\* returned, lines 365-372) or raises; it does not end while the transport has
\* bytes to flush to a peer that does not read
WaitClosed ==
  /\ session.pc = "wait_closed"
  /\ ~WaitClosedBlocks(session)
  /\ \E response_time \in Latencies :
       \/ LET s == [session EXCEPT !.pc = "returned",
                                   !.ret = (session.after = "finish"),
                                   !.rec = IF session.after = "finish"
                                           THEN "success" ELSE "none"]
          IN /\ session' = s
             /\ metrics' = SessionRecord(s, response_time)
       \/ LET s == Except([session EXCEPT !.close = "ConnectionResetError"],
                          "ConnectionResetError", FALSE)
          IN /\ session' = s
             /\ metrics' = SessionRecord(s, response_time)
  /\ UNCHANGED SessionVars

SessionNext == Connect \/ PeerStalls \/ Read \/ DrainEnds \/ WaitClosed

SpecSession == SessionInit /\ [][SessionNext]_vars

\* the event loop resumes a coroutine whose await has ended, and every
\* wait_for ends at its timeout at the latest
SpecSessionLive == SpecSession /\ WF_vars(Connect \/ Read \/ DrainEnds \/ WaitClosed)

\* ------------------------------------- self.lock, statement by statement
\* The workers of a burst run, one message each, followed one statement at a
\* time and interleaved at every statement: more interleavings than the event
\* loop can produce, which switches coroutines at awaits only.  "x += 1" is a
\* load of x into the coroutine's reg and a store of reg + 1.
\*
\* the statements inside each "async with self.lock": line 421; lines 368-370;
\* lines 376-377 and 383-384 (record_error is line 102); line 427
Section(sec) ==
  CASE sec = "total" ->
         << [op |-> "load", field |-> "total_messages"],
            [op |-> "store", field |-> "total_messages"] >>
    [] sec = "success" ->
         << [op |-> "load", field |-> "successful_messages"],
            [op |-> "store", field |-> "successful_messages"],
            [op |-> "load", field |-> "total_bytes_sent"],
            [op |-> "store", field |-> "total_bytes_sent"],
            [op |-> "append", field |-> "response_times"] >>
    [] sec = "error" ->
         << [op |-> "load", field |-> "connection_errors"],
            [op |-> "store", field |-> "connection_errors"],
            [op |-> "load", field |-> "error_breakdown"],
            [op |-> "store", field |-> "error_breakdown"] >>
    [] sec = "failed" ->
         << [op |-> "load", field |-> "failed_messages"],
            [op |-> "store", field |-> "failed_messages"] >>

LockVars == << run, workers, tasks, stragglers, exit_code, ended, seen, recorded,
              servers, targets, call, session, collector >>

\* run_burst_test has created n workers for n messages; each stands at line 420
LockInit ==
  /\ \E n \in 1..MaxCoros, message_size \in MessageSizes :
       /\ run = [pc |-> "burst", mode |-> "burst", total_messages |-> n,
                 concurrent_workers |-> n, message_size |-> message_size,
                 message_count |-> 0]
       /\ coros = [c \in 1..n |->
                     [pc |-> "acquire", sec |-> "total", at |-> 0, reg |-> 0,
                      res |-> Returned(FALSE, "none"), response_time |-> 0]]
  /\ metrics = NewMetrics
  /\ lock = Free
  /\ workers = << >>
  /\ tasks = 0
  /\ stragglers = NoStragglers
  /\ exit_code = << >>
  /\ ended = [ok |-> 0, failed |-> 0]
  /\ seen = "nothing"
  /\ recorded = NoneRecorded
  /\ servers = 1
  /\ targets = {}
  /\ call = NoCall /\ session = NoSession
  /\ collector = NoCollector

\* the lock taken whether it is held or not
Acquire_NoWait(c) ==
  /\ c \in DOMAIN coros
  /\ coros[c].pc = "acquire"
  /\ lock' = c
  /\ coros' = [coros EXCEPT ![c].pc = "in", ![c].at = 1]
  /\ UNCHANGED << metrics, LockVars >>

\* "async with self.lock": the coroutine goes on when the lock is free
Acquire(c) ==
  /\ c \in DOMAIN coros
  /\ coros[c].pc = "acquire"
  /\ lock = Free
  /\ lock' = c
  /\ coros' = [coros EXCEPT ![c].pc = "in", ![c].at = 1]
  /\ UNCHANGED << metrics, LockVars >>

\* one load, one store or the append of a section
Statement(c) ==
  /\ c \in DOMAIN coros
  /\ coros[c].pc = "in"
  /\ coros[c].at <= Len(Section(coros[c].sec))
  /\ LET co == coros[c]
         st == Section(co.sec)[co.at]
         key == co.res.rec
         eb == metrics.error_breakdown
     IN /\ IF st.op = "load"
           THEN /\ coros' = [coros EXCEPT ![c].at = @ + 1,
                                ![c].reg = IF st.field = "error_breakdown"
                                           THEN (IF key \in DOMAIN eb THEN eb[key] ELSE 0)
                                           ELSE metrics[st.field]]
                /\ UNCHANGED metrics
           ELSE /\ coros' = [coros EXCEPT ![c].at = @ + 1]
                /\ metrics' =
                     CASE st.field = "response_times" ->
                            [metrics EXCEPT !.response_times = Append(@, co.response_time)]
                       [] st.field = "total_bytes_sent" ->
                            [metrics EXCEPT !.total_bytes_sent =
                                co.reg + generate_message_body(run.message_size)]
                       [] st.field = "error_breakdown" ->
                            [metrics EXCEPT !.error_breakdown =
                                [k \in DOMAIN eb \cup {key} |->
                                   IF k = key THEN co.reg + 1 ELSE eb[k]]]
                       [] OTHER -> [metrics EXCEPT ![st.field] = co.reg + 1]
  /\ UNCHANGED << lock, LockVars >>

\* the end of the "async with": the lock is released; after line 421 the
\* transaction is awaited, after the recording of an error line 425 follows,
\* after a success or line 427 the worker is done
Release(c) ==
  /\ c \in DOMAIN coros
  /\ coros[c].pc = "in"
  /\ coros[c].at > Len(Section(coros[c].sec))
  /\ lock' = Free
  /\ coros' = [coros EXCEPT
       ![c].pc = IF coros[c].sec = "total" THEN "send"
                 ELSE IF coros[c].sec = "error" THEN "acquire" ELSE "done",
       ![c].sec = IF coros[c].sec = "error" THEN "failed" ELSE @]
  /\ UNCHANGED << metrics, LockVars >>

\* the transaction has gone through its awaits and comes to record: a success
\* (line 367), an error (lines 375, 382), or nothing, False being returned to
\* line 425
TransactionEnds(c) ==
  /\ c \in DOMAIN coros
  /\ coros[c].pc = "send"
  /\ \E o \in Outcomes, response_time \in Latencies :
       /\ ~o.res.raised
       /\ coros' = [coros EXCEPT
            ![c].pc = "acquire",
            ![c].res = o.res,
            ![c].response_time = IF o.res.rec = "success" THEN response_time ELSE 0,
            ![c].sec = IF o.res.rec = "success" THEN "success"
                       ELSE IF o.res.rec \in ErrorType THEN "error" ELSE "failed"]
  /\ UNCHANGED << metrics, lock, LockVars >>

LockNext ==
  \E c \in 1..(MaxCoros + 1) :
     Acquire(c) \/ Statement(c) \/ Release(c) \/ TransactionEnds(c)

SpecLock == LockInit /\ [][LockNext]_vars

\* ------------------------------------ DockerStatsCollector and its thread
\* The sampler is a thread of its own, the caller of start() and stop() is the
\* event loop's thread; time is counted in seconds.  A blocking call (the
\* subprocess of _collect_sample, time.sleep, Thread.join) ends when its time
\* is up: left is what remains of the thread's call, join what remains of the
\* caller's join.  stats holds the samples by number; what stop() returns is
\* the list self.stats itself (line 192), which lines 466 and 512 store as
\* metrics.docker_stats: one list under two names.
JoinTimeout == 2      \* line 191: self.thread.join(timeout=2.0)
SampleInterval == 1   \* line 203: time.sleep(1.0)
CollectTimeout == 5   \* line 211: subprocess.run(..., timeout=5.0)
MaxStats == 2         \* the samples followed

CollectorVars == << metrics, run, workers, tasks, stragglers, exit_code, ended, seen,
                    recorded, servers, targets, call, session, lock, coros >>

\* DockerStatsCollector.__init__ (lines 175-179), in a run that has just
\* started (lines 442-448 and 480-486)
CollectorInit ==
  /\ metrics = NewMetrics
  /\ NoRun
  /\ call = NoCall /\ session = NoSession /\ lock = Free /\ coros = NoCoros
  /\ collector = [caller |-> "created", running |-> FALSE, stats |-> << >>,
                  thread |-> "none", left |-> 0, sample |-> FALSE,
                  join |-> 0, returned |-> 0]

\* start(), lines 183-185
start ==
  /\ collector.caller = "created"
  /\ collector' = [collector EXCEPT !.running = TRUE, !.thread = "test",
                                     !.caller = "run"]
  /\ UNCHANGED CollectorVars

\* _collect_loop, lines 196-198: the test of self.running, then the call of
\* _collect_sample, which takes up to the 5 seconds of its subprocess and
\* returns a sample or None (None when the 5 seconds are up, lines 245-246)
LoopTest ==
  /\ collector.thread = "test"
  /\ IF collector.running
     THEN /\ Len(collector.stats) < MaxStats
          /\ \E seconds \in 0..CollectTimeout, sample \in BOOLEAN :
               /\ seconds = CollectTimeout => ~sample
               /\ collector' = [collector EXCEPT !.thread = "collect",
                                                  !.left = seconds,
                                                  !.sample = sample]
     ELSE collector' = [collector EXCEPT !.thread = "ended"]
  /\ UNCHANGED CollectorVars

\* lines 198-203: _collect_sample returns, the sample is appended, the thread
\* sleeps; self.running is not looked at
Collected ==
  /\ collector.thread = "collect" /\ collector.left = 0
  /\ collector' = [collector EXCEPT
                     !.stats = IF collector.sample
                               THEN Append(@, Len(@) + 1) ELSE @,
                     !.thread = "sleep", !.left = SampleInterval]
  /\ UNCHANGED CollectorVars

\* line 203: the sleep ends
Slept ==
  /\ collector.thread = "sleep" /\ collector.left = 0
  /\ collector' = [collector EXCEPT !.thread = "test"]
  /\ UNCHANGED CollectorVars

\* stop(), lines 189-191, called at line 466 or 512 when the run is over
stop ==
  /\ collector.caller = "run"
  /\ collector' = [collector EXCEPT !.running = FALSE, !.caller = "join",
                                     !.join = JoinTimeout]
  /\ UNCHANGED CollectorVars

\* lines 191-192 and 466 (512): join returns, because the thread has ended or
\* because the 2 seconds are up; self.stats is returned and stored
Joined ==
  /\ collector.caller = "join"
  /\ collector.thread = "ended" \/ collector.join = 0
  /\ collector' = [collector EXCEPT !.caller = "returned", !.join = 0,
                                     !.returned = Len(collector.stats)]
  /\ UNCHANGED CollectorVars

\* metrics.docker_stats: the list of line 45 until line 466 (512) puts
\* self.stats in its place
docker_stats ==
  IF collector.caller \in {"returned", "exited"} THEN collector.stats ELSE << >>

\* main, line 626: sys.exit ends the process and its daemon thread with it
Exit ==
  /\ collector.caller = "returned"
  /\ collector' = [collector EXCEPT !.caller = "exited", !.thread = "ended"]
  /\ UNCHANGED CollectorVars

\* a call whose time is up, or a step that waits for nothing, comes before the
\* next second
Due ==
  \/ collector.thread = "test"
  \/ collector.thread \in {"collect", "sleep"} /\ collector.left = 0
  \/ collector.caller = "join" /\ (collector.join = 0 \/ collector.thread = "ended")

\* one second passes
Tick ==
  /\ collector.caller \in {"run", "join", "returned"}
  /\ ~Due
  /\ collector' = [collector EXCEPT
                     !.left = IF @ > 0 THEN @ - 1 ELSE 0,
                     !.join = IF @ > 0 THEN @ - 1 ELSE 0]
  /\ UNCHANGED CollectorVars

CollectorNext ==
  \/ start
  \/ LoopTest
  \/ Collected
  \/ Slept
  \/ stop
  \/ Joined
  \/ Exit
  \/ Tick

SpecCollector == CollectorInit /\ [][CollectorNext]_vars

\* ============================================================ properties
Finalized == metrics.end_time # 0
InFlightWorkers == { w \in DOMAIN workers : workers[w].pc = "inflight" }
\* no session of the run is outstanding
Drained == tasks = 0 /\ InFlightWorkers = {}
BurstCompleted == run.mode = "burst" /\ run.pc = "idle" /\ Finalized
SumBreakdown == Sum(metrics.error_breakdown)
Attempted == Sum([w \in DOMAIN workers |-> workers[w].i])
Batches == [w \in DOMAIN workers |-> workers[w].num_messages]
\* a step of the burst run in progress
BurstStep ==
  \/ \E w \in DOMAIN workers : WorkerSend(w) \/ WorkerDone(w) \/ WorkerReturn(w)
  \/ BurstReturn
\* the body lengths of the successes recorded in metrics
BytesOfRecorded ==
  Sum([size \in MessageSizes |-> recorded[size] * generate_message_body(size)])

\* C1: once a run has been finalized and every session it launched has
\* finished, total_messages = successful_messages + failed_messages.
C1_TotalIsSucceededPlusFailed ==
  (Finalized /\ Drained) =>
     metrics.total_messages = metrics.successful_messages + metrics.failed_messages

\* C2: a completed burst run in which every transaction had its RCPT TO
\* answered "550 rejected" has no success, totalMessages failures, and
\* totalMessages errors of the category protocol_error.
C2_RejectionsAreProtocolErrors ==
  (BurstCompleted /\ seen = "rcpt550") =>
     /\ metrics.successful_messages = 0
     /\ metrics.failed_messages = run.total_messages
     /\ PROTOCOL_ERROR \in DOMAIN metrics.error_breakdown
     /\ metrics.error_breakdown[PROTOCOL_ERROR] = run.total_messages

\* C3: a completed burst run whose server answered every step of every
\* transaction with the expected code has recorded every transaction as a
\* success: successful_messages = totalMessages, failed_messages = 0,
\* connection_errors = 0, and response_times holds totalMessages entries.
C3_CooperativeServerAllSucceed ==
  (BurstCompleted /\ seen \in {"nothing", "expected"}) =>
     /\ metrics.successful_messages = run.total_messages
     /\ metrics.failed_messages = 0
     /\ metrics.connection_errors = 0
     /\ Len(metrics.response_times) = run.total_messages

C3_Witness ==
  /\ BurstCompleted /\ seen = "expected"
  /\ run.total_messages = 2 /\ run.concurrent_workers = 2
  /\ metrics.successful_messages = 2
  /\ metrics.response_times = << 1, 1 >>

\* C4: in every state (each is a point where another session can run),
\* failed_messages = connection_errors = the sum of the error_breakdown counts.
C4_FailureRecordedAtomically ==
  /\ metrics.failed_messages = metrics.connection_errors
  /\ metrics.connection_errors = SumBreakdown

\* C5: the exit status of a run that returned is 0 if and only if no
\* transaction of the run failed, and 1 otherwise.
C5_ExitStatusTellsFailures ==
  exit_code # << >> =>
     /\ exit_code[1] \in {0, 1}
     /\ (exit_code[1] = 0) <=> (ended.failed = 0)

\* C6: worker i (0-based) of a burst run is given base + 1 messages when
\* i < totalMessages mod workerCount and base = totalMessages div workerCount
\* otherwise; the batches sum to totalMessages and differ by at most one, and
\* 23 messages over 5 workers are batched 5, 5, 5, 4, 4.
C6_BurstPartitioning ==
  LET base == run.total_messages \div run.concurrent_workers
      r == run.total_messages % run.concurrent_workers
  IN /\ \A w \in DOMAIN workers :
          Batches[w] = IF w - 1 < r THEN base + 1 ELSE base
     /\ Len(workers) = run.concurrent_workers =>
          /\ Sum(Batches) = run.total_messages
          /\ \A v, w \in DOMAIN workers :
               Batches[v] - Batches[w] \in {-1, 0, 1}
          /\ \A v, w \in DOMAIN workers : v < w => Batches[v] >= Batches[w]
          /\ (run.total_messages = 23 /\ run.concurrent_workers = 5) =>
               Batches = << 5, 5, 5, 4, 4 >>

C6_Witness ==
  /\ run.total_messages = 23 /\ run.concurrent_workers = 5
  /\ Batches = << 5, 5, 5, 4, 4 >>

\* C7: once end_time is set, the counters, response_times and error_breakdown
\* of that metrics object never change again.
C7_FinalizedMetricsFrozen ==
  [][ (metrics.end_time # 0 /\ metrics'.end_time # 0) => metrics' = metrics ]_vars

\* C8: every run starts from a new metrics object with all counters zero, and
\* the metrics of a run are never modified by a session an earlier run
\* launched.
C8_NoStateAcrossRuns ==
  [][ /\ (run.pc = "idle" /\ run'.pc # "idle") => metrics' = NewMetrics
      /\ Sum(stragglers') < Sum(stragglers) => metrics' = metrics ]_vars

\* C9: no failure leaves its session: no worker task and no run ends by an
\* exception, every ended transaction (failed or not) moved its worker on by
\* one message, a burst run in progress can always take a step, and a
\* completed burst run has attempted all totalMessages messages, every worker
\* its whole batch.
C9_FailuresStayInSession ==
  /\ run.pc # "aborted"
  /\ \A w \in DOMAIN workers : workers[w].pc # "raised"
  /\ run.mode = "burst" => Attempted = ended.ok + ended.failed
  /\ run.pc = "burst" => ENABLED BurstStep
  /\ BurstCompleted =>
       /\ metrics.total_messages = run.total_messages
       /\ \A w \in DOMAIN workers :
            workers[w].pc = "done" /\ workers[w].i = Batches[w]
       /\ Attempted = run.total_messages

C9_Witness ==
  /\ BurstCompleted
  /\ run.total_messages = 2 /\ run.concurrent_workers = 2
  /\ ended.failed = 2
  /\ metrics.connection_errors = 1
  /\ OTHER_ERROR \in DOMAIN metrics.error_breakdown

\* C10: in every state response_times has successful_messages entries and
\* total_bytes_sent is the sum of the generated body lengths of the recorded
\* successes; within one metrics object total_bytes_sent never decreases, and
\* it grows only in a step that records one success and no failure.
C10_SuccessRecordedAtomically ==
  /\ [](/\ Len(metrics.response_times) = metrics.successful_messages
        /\ Sum(recorded) = metrics.successful_messages
        /\ metrics.total_bytes_sent = BytesOfRecorded)
  /\ [][ \/ run.pc = "idle" /\ run'.pc # "idle"
         \/ /\ metrics'.total_bytes_sent >= metrics.total_bytes_sent
            /\ metrics'.total_bytes_sent > metrics.total_bytes_sent =>
                 /\ metrics'.successful_messages = metrics.successful_messages + 1
                 /\ metrics'.failed_messages = metrics.failed_messages
                 /\ metrics'.connection_errors = metrics.connection_errors ]_vars

C10_Witness ==
  /\ recorded[200] = 1 /\ recorded[400] = 1
  /\ metrics.total_bytes_sent = 208 + 322
  /\ metrics.connection_errors = 1
  /\ Len(metrics.response_times) = 2

\* percentile called alone: it has returned
PercentileReturned == call.fn = "percentile" /\ call.pc = "returned"
\* the j-th smallest (from 0) of a list that is not empty
OrderStat(times, j) ==
  CHOOSE v \in { times[i] : i \in DOMAIN times } :
    /\ Cardinality({ i \in DOMAIN times : times[i] < v }) <= j
    /\ j < Cardinality({ i \in DOMAIN times : times[i] <= v })
Smallest(times) ==
  CHOOSE v \in { times[i] : i \in DOMAIN times } : \A i \in DOMAIN times : v <= times[i]
Largest(times) ==
  CHOOSE v \in { times[i] : i \in DOMAIN times } : \A i \in DOMAIN times : v >= times[i]

\* the session followed alone: what its reads ended with
SessionReturned == session.pc = "returned"
Reply(i, code) ==
  i \in DOMAIN session.reads /\ session.reads[i].exc = NoExc /\ session.reads[i].code = code
\* a line of the EHLO reply that is not its last
Continues(i) == Reply(i, "250") /\ session.reads[i].sep # " "
\* the place in reads of the line that ended the EHLO reply (or would)
EhloEnd ==
  LET rest == { i \in 2..Len(session.reads) : ~Continues(i) }
  IN IF rest = {} THEN Len(session.reads) + 1
     ELSE CHOOSE i \in rest : \A j \in rest : i <= j
Sent(write) == \E i \in DOMAIN session.sent : session.sent[i] = write
\* the server has accepted the message: 250 after the end-of-data marker
Accepted == Sent(".") /\ Reply(EhloEnd + 4, "250")
\* the script of the transaction as send_smtp_message (the operator) reads it
SessionScript ==
  [connect |-> IF session.step = "connect" THEN session.exc ELSE NoExc,
   reads |-> session.reads,
   drain_at |-> session.drain_at,
   drain_exc |-> IF session.drain_at = 0 THEN NoExc ELSE "ConnectionResetError",
   close |-> session.close]
\* followed await by await, a transaction returns and records what the
\* operator says it does
SessionAgrees ==
  SessionReturned =>
     LET res == send_smtp_message(SessionScript)
     IN res.ret = session.ret /\ res.rec = session.rec /\ ~res.raised

\* the workers followed for the lock: those inside a section, those done
Inside == { c \in DOMAIN coros : coros[c].pc = "in" }
AllDone == coros # NoCoros /\ \A c \in DOMAIN coros : coros[c].pc = "done"
Recorders(recs) == Cardinality({ c \in DOMAIN coros : coros[c].res.rec \in recs })

\* the phrases of a cause, whatever their case
Classified == call.fn = "_classify_error" /\ call.pc = "returned"
HasPhrase(error, low) == \E ph \in error.text : lower({ph}) = {low}
Refused(error) == HasPhrase(error, "connection refused")
Reset(error) == HasPhrase(error, "connection reset") \/ HasPhrase(error, "errno 104")
Coded(error) == \E x \in {"500", "501", "503", "550"} : HasPhrase(error, x)

\* C11: classification is a function of the cause alone, the first matching
\* rule deciding: a timeout is timeout whatever its text; otherwise a text with
\* "connection refused" is connection_refused (also with "550" in it);
\* otherwise one with "connection reset" or "errno 104" is connection_reset;
\* otherwise one with 500, 501, 503 or 550 is protocol_error; otherwise other.
\* The text is matched whatever its case, the except clauses record the same
\* category, and nothing of the generator is changed.
C11_ClassificationFirstMatchWins ==
  Classified =>
    LET error == call.arg
        value == call.value
    IN /\ value \in ErrorType
       /\ error.timeout => value = TIMEOUT
       /\ (~error.timeout /\ Refused(error)) => value = CONNECTION_REFUSED
       /\ (~error.timeout /\ ~Refused(error) /\ Reset(error)) => value = CONNECTION_RESET
       /\ (~error.timeout /\ ~Refused(error) /\ ~Reset(error) /\ Coded(error))
            => value = PROTOCOL_ERROR
       /\ (~error.timeout /\ ~Refused(error) /\ ~Reset(error) /\ ~Coded(error))
            => value = OTHER_ERROR
       /\ (~error.timeout /\ error.text = {"550"}) => value = PROTOCOL_ERROR
       /\ call.recorded = value
       /\ metrics = TestMetrics

C11_Witness ==
  /\ Classified
  /\ ~call.arg.timeout
  /\ call.arg.text = {"Connection refused", "550"}
  /\ call.value = CONNECTION_REFUSED

\* C12: percentile(p) is 0 for an empty response_times and otherwise
\* sorted[f]*(c-k) + sorted[c]*(k-f) with k = (n-1)*p/100, f = floor(k),
\* c = min(f+1, n-1) over the ascending order (sorted[f] when f = c); for
\* 0.01, 0.02, 0.03, 0.04 in any order percentile(50) is 0.025; percentile(0)
\* is the smallest, percentile(100) the largest; response_times is left in its
\* insertion order.
C12_PercentileInterpolates ==
  PercentileReturned =>
    LET times == call.before
        n == Len(times)
        p == call.arg
        k == (n - 1) * p
        f == k \div Thousandths
        c == IF f + 1 <= n - 1 THEN f + 1 ELSE n - 1
    IN /\ n = 0 => call.value = 0
       /\ n > 0 =>
            /\ f = c => call.value = OrderStat(times, f) * Thousandths
            /\ f # c => call.value = OrderStat(times, f) * (c * Thousandths - k)
                                     + OrderStat(times, c) * (k - f * Thousandths)
            /\ p = 0 => call.value = Smallest(times) * Thousandths
            /\ p = 1000 => call.value = Largest(times) * Thousandths
       /\ ({ times[i] : i \in DOMAIN times } = {1, 2, 3, 4} /\ n = 4 /\ p = 500)
            => call.value = 2500
       /\ metrics.response_times = times

C12_Witness ==
  /\ PercentileReturned
  /\ call.before = << 3, 1, 4, 2 >> /\ call.arg = 500
  /\ call.value = 2500
  /\ metrics.response_times = << 3, 1, 4, 2 >>

\* C13: the commands are written in the fixed order EHLO, MAIL FROM, RCPT TO,
\* DATA, body, end-of-data marker, QUIT, none before the connection is made and
\* each only once the step before it has succeeded (220 for the greeting, a
\* line beginning "250 " after any number of other 250 lines for EHLO, then
\* 250, 250, 354 and, before QUIT, 250); a success is recorded only after
\* exactly these replies, and after a failed step nothing more is written.
C13_StepOrderAndShortCircuit ==
  /\ [](/\ \A i \in DOMAIN session.sent : i <= Len(Writes) /\ session.sent[i] = Writes[i]
        /\ session.sent # << >> => session.conn # "none"
        /\ Sent("EHLO") => Reply(1, "220")
        /\ Sent("MAIL FROM") => Reply(EhloEnd, "250") /\ session.reads[EhloEnd].sep = " "
        /\ Sent("RCPT TO") => Reply(EhloEnd + 1, "250")
        /\ Sent("DATA") => Reply(EhloEnd + 2, "250")
        /\ Sent("body") => Reply(EhloEnd + 3, "354")
        /\ Sent(".") => Sent("body")
        /\ Sent("QUIT") => Reply(EhloEnd + 4, "250")
        /\ (session.rec = "success" \/ metrics.successful_messages > 0) =>
             /\ SessionReturned /\ session.ret
             /\ session.sent = Writes
             /\ Len(session.reads) = EhloEnd + 5
             /\ session.reads[EhloEnd + 5].exc = NoExc
             /\ metrics.successful_messages = 1)
  /\ [][ (session.pc \in {"wait_closed", "returned"}) => session'.sent = session.sent ]_vars

C13_Witness ==
  /\ SessionReturned /\ session.ret /\ metrics.successful_messages = 1
  /\ EhloEnd = 4
  /\ session.sent = Writes

\* C14: once the server has accepted the message (250 after the end-of-data
\* marker) the transaction is recorded as a success and no error is counted,
\* whatever becomes of the QUIT exchange.
C14_QuitFailureIsNoFailure ==
  (SessionReturned /\ Accepted) =>
     /\ session.ret
     /\ metrics.successful_messages = 1
     /\ metrics.connection_errors = 0

\* C15: a transaction that ends in failure after its connection was opened
\* has closed the connection by the time it returns.
C15_FailureClosesConnection ==
  (SessionReturned /\ ~session.ret /\ session.conn # "none") => session.conn = "closed"

\* C16: every transaction eventually returns, whatever the server does.
C16_TransactionReturns == <>SessionReturned

\* C17: when end_time of a burst run is set, no session of the run is in
\* flight, every worker has ended with its whole batch attempted, and
\* total_messages = totalMessages = the number of transactions that ended.
C17_FinalizedAfterAllWorkers ==
  [][ (run.pc = "burst" /\ metrics.end_time = 0 /\ metrics'.end_time # 0) =>
        /\ InFlightWorkers = {}
        /\ \A w \in DOMAIN workers :
             workers[w].pc = "done" /\ workers[w].i = workers[w].num_messages
        /\ Len(workers) = run.concurrent_workers
        /\ metrics.total_messages = run.total_messages
        /\ metrics'.total_messages = run.total_messages
        /\ ended.ok + ended.failed = run.total_messages
        /\ Attempted = run.total_messages ]_vars

C17_Witness ==
  /\ BurstCompleted
  /\ run.total_messages = 2 /\ run.concurrent_workers = 2
  /\ ended.ok = 1 /\ ended.failed = 1
  /\ metrics.total_messages = 2

\* C18: at most one coroutine is inside a section guarded by the lock, and it
\* holds the lock; once every worker is done, total_messages is the number of
\* attempts started, successful_messages (and the length of response_times,
\* and the bytes) the number of successes recorded, connection_errors (and the
\* sum of error_breakdown) the number of errors recorded, failed_messages the
\* number of transactions that returned False.
C18_RecordingMutuallyExclusive ==
  /\ Cardinality(Inside) <= 1
  /\ \A c \in Inside : lock = c
  /\ Inside = {} => lock = Free
  /\ AllDone =>
       /\ metrics.total_messages = Len(coros)
       /\ metrics.successful_messages = Recorders({"success"})
       /\ Len(metrics.response_times) = Recorders({"success"})
       /\ metrics.total_bytes_sent =
            Recorders({"success"}) * generate_message_body(run.message_size)
       /\ metrics.connection_errors = Recorders(ErrorType)
       /\ SumBreakdown = Recorders(ErrorType)
       /\ metrics.failed_messages = Recorders(ErrorType \cup {"none"})

C18_Witness ==
  /\ AllDone /\ Len(coros) = 2
  /\ metrics.total_messages = 2
  /\ metrics.successful_messages = 1
  /\ metrics.connection_errors = 1
  /\ metrics.failed_messages = 1

\* C19: in a completed burst run of at least as many messages as there are
\* servers, every server was the target of at least one transaction.
C19_EveryServerTargeted ==
  (BurstCompleted /\ run.total_messages >= servers) => targets = 0..(servers - 1)

\* C20: in a burst run total_messages - successful_messages - failed_messages
\* is the number of workers with a transaction in flight, at most one per
\* worker, so between 0 and workerCount.
C20_BurstConcurrencyBounded ==
  run.mode = "burst" =>
     LET in_flight == metrics.total_messages - metrics.successful_messages
                        - metrics.failed_messages
     IN /\ in_flight = Cardinality(InFlightWorkers)
        /\ in_flight >= 0
        /\ in_flight <= run.concurrent_workers

C20_Witness ==
  /\ run.pc = "burst" /\ run.concurrent_workers = 2
  /\ Cardinality(InFlightWorkers) = 2
  /\ metrics.total_messages - metrics.successful_messages - metrics.failed_messages = 2

\* the sustained run has returned: end_time is set and main has its exit status
SustainedFinalized ==
  /\ run.mode = "sustained" /\ run.pc = "idle"
  /\ metrics.end_time = EndTime
  /\ exit_code # << >>

\* C21: every sustained run is finalized (end_time set, the run returned),
\* whatever becomes of the sessions it launched; while the duration lasts the
\* next session can be launched whatever the number in flight, a launch waits
\* for no session (it only adds one to those in flight), and once the grace
\* period is entered the return waits for none either.
C21_SustainedRunFinalizes ==
  /\ (run.mode = "sustained") ~> SustainedFinalized
  /\ []((run.pc = "sustained" /\ run.message_count < MaxMessages)
          => ENABLED SustainedLaunch)
  /\ [](run.pc = "grace" => ENABLED SustainedReturn)
  /\ [][SustainedLaunch =>
          /\ tasks' = tasks + 1
          /\ ended' = ended
          /\ run'.pc = "sustained" ]_vars

C21_Witness ==
  /\ SustainedFinalized
  /\ run.message_count = 2 /\ tasks = 2
  /\ ended.ok + ended.failed = 0
  /\ metrics.total_messages = 2

\* error_breakdown.get(key, 0) of the metrics object m
Count(m, key) ==
  IF key \in DOMAIN m.error_breakdown THEN m.error_breakdown[key] ELSE 0
\* the step that starts a run puts a new metrics object in place
NewObject == run.pc = "idle" /\ run'.pc # "idle"

\* C22: in every state, of either mode, connection_errors is the sum of the
\* error_breakdown counts, the keys of error_breakdown are among timeout,
\* connection_refused, connection_reset, protocol_error and other, and a key
\* that is present has been counted at least once; within one metrics object
\* a step adds to connection_errors what it adds to error_breakdown, which is
\* nothing or one occurrence of one category, and takes no key away.
C22_ErrorBreakdownSumsToErrors ==
  /\ [](/\ metrics.connection_errors = SumBreakdown
        /\ DOMAIN metrics.error_breakdown \subseteq ErrorType
        /\ \A key \in DOMAIN metrics.error_breakdown :
              metrics.error_breakdown[key] >= 1)
  /\ [][ \/ NewObject
         \/ /\ DOMAIN metrics.error_breakdown \subseteq DOMAIN metrics'.error_breakdown
            /\ \A key \in ErrorType :
                  Count(metrics', key) - Count(metrics, key) \in {0, 1}
            /\ Cardinality({key \in ErrorType :
                               Count(metrics', key) = Count(metrics, key) + 1})
                 = metrics'.connection_errors - metrics.connection_errors ]_vars

C22_Witness ==
  /\ run.mode = "sustained"
  /\ metrics.connection_errors = 2
  /\ DOMAIN metrics.error_breakdown = {TIMEOUT, CONNECTION_RESET}
  /\ Sum(stragglers) > 0

\* stop() has returned and its value is the run's docker_stats
Stopped == collector.caller \in {"returned", "exited"}

\* C23: once stop() has returned, docker_stats holds the samples it held when
\* stop() returned and no other, wherever the sampler thread stood when the
\* join ended.
C23_StoppedSamplesFrozen ==
  Stopped => Len(docker_stats) = collector.returned

====
